---- MODULE Spec2Model ----
(***************************************************************************)
(* The ABI codec of vyper/codegen/abi.py: the ABI type descriptors, the    *)
(* lowering abi_type_of, the child enumerator o_list, the emitters         *)
(* abi_encode / abi_decode, and a small machine that executes the emitted  *)
(* LLL trees (with / set / seq / mstore / mload / add / ceil32) on a byte  *)
(* addressed memory.                                                       *)
(***************************************************************************)
EXTENDS Integers, Sequences, FiniteSets, TLC

VARIABLES
    phase,      \* position of the compilation / execution pipeline
    typ,        \* front-end type of the node handed to abi_encode
    val,        \* the value of that node
    dstA,       \* address the caller's dst expression evaluates to
    returns,    \* the returns= argument of the top-level abi_encode call
    bufsz,      \* the bufsz= argument (None = no buffer size given)
    code,       \* machine: the work still to do, next item first
    vals,       \* machine: the value stack
    env,        \* machine: the `with` bindings, innermost last
    mem,        \* machine: memory, a function on the addresses written
    out,        \* the decoder's destination: leaf path -> decoded value
    lvl,        \* history: per `with dst` level, its type and child index
    clobber,    \* history: some byte of memory was written twice
    dstEvals,   \* history: evaluations of the caller's dst expression
    desc,       \* descriptor under query
    ans         \* answers of the descriptor queries

vars == <<phase, typ, val, dstA, returns, bufsz, code, vals, env, mem, out,
          lvl, clobber, dstEvals, desc, ans>>

----------------------------------------------------------------------------
(* Bounds of the model.                                                    *)

\* longest byte string / largest byte-array bound
MaxLen == 33
\* number of elements of the lists in the type universe
MaxCount == 2
\* largest m_elems / elems_bound of the array descriptors
MaxElems == 2

----------------------------------------------------------------------------
(* Generic helpers.                                                        *)

RECURSIVE SumSeq(_)
SumSeq(s) == IF s = <<>> THEN 0 ELSE Head(s) + SumSeq(Tail(s))

\* vyper.utils.ceil32
ceil32(x) == IF x % 32 = 0 THEN x ELSE x + 32 - (x % 32)

----------------------------------------------------------------------------
(* ABI type descriptors.  A descriptor is a record                         *)
(*   [k: class name, m: m_bits/m_bytes/m_elems/bound, n: n_places,         *)
(*    signed: BOOLEAN, subs: sequence of sub-descriptors].                 *)

Mk(k, m, n, s, subs) == [k |-> k, m |-> m, n |-> n, signed |-> s, subs |-> subs]

ABI_GIntM(m_bits, signed) == Mk("GIntM", m_bits, 0, signed, <<>>)
ABI_Address == Mk("Address", 160, 0, FALSE, <<>>)
ABI_Bool == Mk("Bool", 8, 0, FALSE, <<>>)
ABI_FixedMxN(m_bits, n_places, signed) == Mk("FixedMxN", m_bits, n_places, signed, <<>>)
ABI_BytesM(m_bytes) == Mk("BytesM", m_bytes, 0, FALSE, <<>>)
ABI_Function == Mk("Function", 24, 0, FALSE, <<>>)
ABI_StaticArray(subtyp, m_elems) == Mk("StaticArray", m_elems, 0, FALSE, <<subtyp>>)
ABI_Bytes(bytes_bound) == Mk("Bytes", bytes_bound, 0, FALSE, <<>>)
ABI_String(bytes_bound) == Mk("String", bytes_bound, 0, FALSE, <<>>)
ABI_DynamicArray(subtyp, elems_bound) == Mk("DynamicArray", elems_bound, 0, FALSE, <<subtyp>>)
ABI_Tuple(subtyps) == Mk("Tuple", 0, 0, FALSE, subtyps)

\* the constructors' parameter checks (CompilerPanic otherwise)
ValidDescriptorParams(D) ==
    CASE D.k \in {"GIntM", "Address", "Bool"} ->
            0 < D.m /\ D.m <= 256 /\ D.m % 8 = 0
      [] D.k = "FixedMxN" ->
            0 < D.m /\ D.m <= 256 /\ D.m % 8 = 0 /\ 0 < D.n /\ D.n <= 80
      [] D.k \in {"BytesM", "Function"} -> 0 < D.m /\ D.m <= 32
      [] D.k \in {"StaticArray", "Bytes", "String", "DynamicArray"} -> D.m >= 0
      [] OTHER -> TRUE

RECURSIVE is_dynamic(_)
is_dynamic(D) ==
    CASE D.k = "StaticArray" -> is_dynamic(D.subs[1])
      [] D.k \in {"Bytes", "String", "DynamicArray"} -> TRUE
      [] D.k = "Tuple" -> \E j \in 1..Len(D.subs) : is_dynamic(D.subs[j])
      [] OTHER -> FALSE

RECURSIVE static_size(_)
static_size(D) ==
    CASE D.k = "StaticArray" -> D.m * static_size(D.subs[1])
      [] D.k = "Tuple" ->
            IF is_dynamic(D) THEN 32
            ELSE SumSeq([j \in 1..Len(D.subs) |-> static_size(D.subs[j])])
      [] OTHER -> 32

RECURSIVE dynamic_size_bound(_)
dynamic_size_bound(D) ==
    CASE D.k = "StaticArray" -> D.m * dynamic_size_bound(D.subs[1])
      [] D.k \in {"Bytes", "String"} -> 32 + ceil32(D.m)
      [] D.k = "DynamicArray" -> dynamic_size_bound(D.subs[1]) * D.m
      [] D.k = "Tuple" ->
            SumSeq([j \in 1..Len(D.subs) |-> dynamic_size_bound(D.subs[j])])
      [] OTHER -> 0

is_tuple(D) == D.k \in {"StaticArray", "Tuple"}

\* ABIType.selector_name is not overridden by ABI_Tuple: calling it raises
NoSelectorName == "<raise>"

\* line 110-111: the second literal is a plain string, not an f-string
FixedMxN_selector_name(D) ==
    (IF D.signed THEN "" ELSE "u") \o "fixed{self.m_bits}x{self.n_places}"

RECURSIVE selector_name(_)
selector_name(D) ==
    CASE D.k = "GIntM" -> (IF D.signed THEN "" ELSE "u") \o "int" \o ToString(D.m)
      [] D.k = "Address" -> "address"
      [] D.k = "Bool" -> "bool"
      [] D.k = "FixedMxN" -> FixedMxN_selector_name(D)
      [] D.k = "BytesM" -> "bytes" \o ToString(D.m)
      [] D.k = "Function" -> "function"
      [] D.k = "StaticArray" ->
            IF selector_name(D.subs[1]) = NoSelectorName THEN NoSelectorName
            ELSE selector_name(D.subs[1]) \o "[" \o ToString(D.m) \o "]"
      [] D.k = "Bytes" -> "bytes"
      [] D.k = "String" -> "string"
      [] D.k = "DynamicArray" ->
            IF selector_name(D.subs[1]) = NoSelectorName THEN NoSelectorName
            ELSE selector_name(D.subs[1]) \o "[]"
      [] OTHER -> NoSelectorName

----------------------------------------------------------------------------
(* Front-end types: records [k: kind, n: count / maxlen, subs: members].   *)

BaseNames == {"uint256", "int128", "address", "bytes32", "bool", "decimal"}

BaseType(name) == [k |-> name, n |-> 0, subs |-> <<>>]
TupleType(members) == [k |-> "tuple", n |-> 0, subs |-> members]
ListType(subtype, count) == [k |-> "list", n |-> count, subs |-> <<subtype>>]
ByteArrayType(maxlen) == [k |-> "bytes", n |-> maxlen, subs |-> <<>>]
StringType(maxlen) == [k |-> "string", n |-> maxlen, subs |-> <<>>]

IsBaseType(t) == t.k \in BaseNames
IsByteArrayLike(t) == t.k \in {"bytes", "string"}
IsTupleLike(t) == t.k = "tuple"
IsListType(t) == t.k = "list"

RECURSIVE abi_type_of(_)
abi_type_of(t) ==
    CASE t.k = "uint256" -> ABI_GIntM(256, FALSE)
      [] t.k = "int128" -> ABI_GIntM(128, TRUE)
      [] t.k = "address" -> ABI_Address
      [] t.k = "bytes32" -> ABI_BytesM(32)
      [] t.k = "bool" -> ABI_Bool
      [] t.k = "decimal" -> ABI_FixedMxN(168, 10, TRUE)
      [] t.k = "tuple" -> ABI_Tuple([j \in 1..Len(t.subs) |-> abi_type_of(t.subs[j])])
      [] t.k = "list" -> ABI_StaticArray(abi_type_of(t.subs[1]), t.n)
      [] t.k = "bytes" -> ABI_Bytes(t.n)
      [] t.k = "string" -> ABI_String(t.n)

----------------------------------------------------------------------------
(* Typed source nodes.  A value is a record [w: word, b: bytes, c: members]*)
(* and an LLL node carrying a value is [typ |-> front-end type, val |-> v].*)

WordValue(x) == [w |-> x, b |-> <<>>, c |-> <<>>]
BytesValue(s) == [w |-> 0, b |-> s, c |-> <<>>]
MultiValue(members) == [w |-> 0, b |-> <<>>, c |-> members]

LLLnode(t, v) == [typ |-> t, val |-> v]

\* members of a composite front-end type, in order (tuple_members / subtype)
MemberTypes(t) ==
    IF IsTupleLike(t) THEN t.subs
    ELSE IF IsListType(t) THEN [j \in 1..t.n |-> t.subs[1]]
    ELSE <<t>>

\* turn an lll node into a list, based on its type
o_list(lll_node) ==
    IF IsTupleLike(lll_node.typ) \/ IsListType(lll_node.typ)
    THEN [j \in 1..Len(MemberTypes(lll_node.typ)) |->
              LLLnode(MemberTypes(lll_node.typ)[j], lll_node.val.c[j])]
    ELSE <<lll_node>>

----------------------------------------------------------------------------
(* LLL trees.  Every tree is a tuple whose first element is its operator:  *)
(*   <<"lit", n>>  <<"var", name>>  <<"add", a, b>>  <<"ceil32", x>>       *)
(*   <<"mload", a>>  <<"mstore", a, v>>  <<"set", name, e>>                *)
(*   <<"seq", items>>  <<"with", name, init, body, annotation>>            *)
(*   <<"setter", d, node>>  <<"zero_pad", d>>  <<"setter_from", o, src>>   *)
(*   <<"callerdst", a>>  the caller's expression for dst / src             *)
(*   <<"mark", i>>       no-op naming the child the next items write       *)
(*   <<"raise", what>>   the emitter raised instead of returning a tree    *)

None == -1

Lit(n) == <<"lit", n>>
Var(name) == <<"var", name>>
Raise(what) == <<"raise", what>>
IsRaise(tree) == tree[1] = "raise"

\* the annotation of a `with` that opens no level
NoAnn == BaseType("none")

\* make_setter(d, o, ...) with d the memory cell named by the expression d
make_setter(d, o) == <<"setter", d, o>>
zero_pad(d) == <<"zero_pad", d>>

RECURSIVE Flatten(_)
Flatten(ss) == IF ss = <<>> THEN <<>> ELSE Head(ss) \o Flatten(Tail(ss))

\* line 318
size_bound(parent_abi_t) ==
    static_size(parent_abi_t) + dynamic_size_bound(parent_abi_t)

\* line 319
BufferTooSmall(sz, parent_abi_t) ==
    sz # None /\ sz < 32 * size_bound(parent_abi_t)

\* line 335
child_dst == <<"add", Var("dst"), Var("dyn_ofst")>>

\* lines 333-343: a dynamic child of a tuple-like parent; child is the tree
\* the recursive call returned
DynamicChildItems(child) ==
    << <<"mstore", Var("dst_loc"), Var("dyn_ofst")>>,
       <<"set", "dyn_ofst", <<"add", Var("dyn_ofst"), child>>>> >>

\* LeafItems with the zero padding of a byte array forgotten
LeafItems_NoZeroPad(o) ==
    IF IsBaseType(o.typ) \/ IsByteArrayLike(o.typ)
    THEN << make_setter(Var("dst_loc"), o) >>
    ELSE << Raise("CompilerPanic") >>

\* lines 348-358: the only element of a parent that is no tuple
LeafItems(o) ==
    IF IsBaseType(o.typ)
    THEN << make_setter(Var("dst_loc"), o) >>
    ELSE IF IsByteArrayLike(o.typ)
    THEN << <<"seq", << make_setter(Var("dst_loc"), o), zero_pad(Var("dst_loc")) >> >> >>
    ELSE << Raise("CompilerPanic") >>

\* lines 360-364
AdvanceDstLoc(i, n, abi_t) ==
    IF i + 1 = n THEN <<>>
    ELSE << <<"set", "dst_loc", <<"add", Var("dst_loc"), Lit(static_size(abi_t))>>>> >>

\* lines 367-377
ReturnItems(rets, parent_abi_t, lll_node) ==
    IF ~rets THEN <<>>
    ELSE IF ~is_dynamic(parent_abi_t) THEN << Lit(static_size(parent_abi_t)) >>
    ELSE IF is_tuple(parent_abi_t) THEN << Var("dyn_ofst") >>
    ELSE IF IsByteArrayLike(lll_node.typ)
    THEN << <<"ceil32", <<"add", Lit(32), <<"mload", Var("dst_loc")>>>>>> >>
    ELSE << Raise("CompilerPanic") >>

\* lines 382-383
dyn_section_start(os) ==
    SumSeq([j \in 1..Len(os) |-> static_size(abi_type_of(os[j].typ))])

\* lines 379-385
WithDynOfst(parent_abi_t, os, lll_ret) ==
    IF ~(is_dynamic(parent_abi_t) /\ is_tuple(parent_abi_t)) THEN lll_ret
    ELSE <<"with", "dyn_ofst", Lit(dyn_section_start(os)), lll_ret, NoAnn>>

\* WithDst with a nested level assigning the cells of the level around it
\* instead of binding its own
WithDst_SharedCells(dst, lll_ret, t) ==
    IF dst[1] = "callerdst"
    THEN <<"with", "dst", dst, <<"with", "dst_loc", Var("dst"), lll_ret, NoAnn>>, t>>
    ELSE <<"seq", << <<"set", "dst", dst>>, <<"set", "dst_loc", Var("dst")>>, lll_ret >> >>

\* lines 387-388; the level's front-end type rides on the tree as annotation
WithDst(dst, lll_ret, t) ==
    <<"with", "dst", dst, <<"with", "dst_loc", Var("dst"), lll_ret, NoAnn>>, t>>

RECURSIVE abi_encode(_, _, _, _)
abi_encode(dst, lll_node, sz, rets) ==
    LET parent_abi_t == abi_type_of(lll_node.typ)
        os == o_list(lll_node)
        ChildItems(i) ==
            LET o == os[i + 1]
                abi_t == abi_type_of(o.typ)
            IN  << <<"mark", i>> >>
                \o (IF is_tuple(parent_abi_t)
                    THEN IF is_dynamic(abi_t)
                         THEN DynamicChildItems(abi_encode(child_dst, o, None, TRUE))
                         ELSE << abi_encode(Var("dst_loc"), o, None, FALSE) >>
                    ELSE LeafItems(o))
                \o AdvanceDstLoc(i, Len(os), abi_t)
        lll_ret == <<"seq", Flatten([j \in 1..Len(os) |-> ChildItems(j - 1)])
                            \o ReturnItems(rets, parent_abi_t, lll_node)>>
    IN  IF BufferTooSmall(sz, parent_abi_t) THEN Raise("CompilerPanic")
        ELSE WithDst(dst, WithDynOfst(parent_abi_t, os, lll_ret), lll_node.typ)

----------------------------------------------------------------------------
(* abi_decode.  The destination node is a reference: its "value" is the    *)
(* tree of the places it names, a leaf holding its path from the root.     *)

RECURSIVE DestTree(_, _)
DestTree(t, path) ==
    IF IsTupleLike(t) \/ IsListType(t)
    THEN MultiValue([j \in 1..Len(MemberTypes(t)) |->
                        DestTree(MemberTypes(t)[j], Append(path, j))])
    ELSE BytesValue(path)

\* make_setter(o, src_loc): copy the memory cell src_loc into the place o
make_setter_load(o, src_loc) == <<"setter_from", o, src_loc>>

\* line 406: unwrap_location is neither imported nor defined in the module
unwrap_location(src_loc) == Raise("NameError")

\* lines 414-418
AdvanceSrcLoc(i, n, abi_t) ==
    IF i + 1 = n THEN <<>>
    ELSE << <<"set", "src_loc", <<"add", Var("src_loc"), Lit(static_size(abi_t))>>>> >>

\* lines 420-422; the items of lll_ret are run in order
WithSrc(src, lll_ret, t) ==
    <<"with", "src", src, <<"with", "src_loc", Var("src"), <<"seq", lll_ret>>, NoAnn>>, t>>

\* the first item that is a raised exception, if any
RECURSIVE FirstRaise(_)
FirstRaise(items) ==
    IF items = <<>> THEN <<>>
    ELSE IF IsRaise(Head(items)) THEN << Head(items) >>
    ELSE FirstRaise(Tail(items))

\* src is the pair of the buffer expression and its type annotation
RECURSIVE abi_decode(_, _)
abi_decode(lll_node, src) ==
    LET os == o_list(lll_node)
        parent_abi_t == abi_type_of(src.typ)
        ChildItems(i) ==
            LET o == os[i + 1]
                abi_t == abi_type_of(o.typ)
                src_loc == [expr |-> Var("src_loc"), typ |-> o.typ]
            IN  << <<"mark", i>> >>
                \o (IF is_tuple(parent_abi_t)
                    THEN IF is_dynamic(abi_t)
                         THEN << unwrap_location(src_loc) >>
                         ELSE << abi_decode(o, src_loc) >>
                    ELSE << make_setter_load(o, src_loc.expr) >>)
                \o AdvanceSrcLoc(i, Len(os), abi_t)
        lll_ret == Flatten([j \in 1..Len(os) |-> ChildItems(j - 1)])
    IN  IF FirstRaise(lll_ret) # <<>> THEN FirstRaise(lll_ret)[1]
        ELSE WithSrc(src.expr, lll_ret, src.typ)

----------------------------------------------------------------------------
(* The machine's memory: 32-byte big-endian words over bytes.  Words of    *)
(* the model stay below 2^24, so only the low three bytes can be nonzero.  *)

\* what a read of a byte nobody wrote yields: no definite value
Undefined == -1

ByteAt(m, a) == IF a \in DOMAIN m THEN m[a] ELSE Undefined

WordBytes(v) ==
    [j \in 1..32 |-> IF j <= 29 THEN 0
                     ELSE IF j = 30 THEN (v \div 65536) % 256
                     ELSE IF j = 31 THEN (v \div 256) % 256
                     ELSE v % 256]

WordAt(m, a) ==
    IF \E j \in 0..31 : ByteAt(m, a + j) = Undefined THEN Undefined
    ELSE IF \E j \in 0..28 : ByteAt(m, a + j) # 0 THEN Undefined
    ELSE ByteAt(m, a + 29) * 65536 + ByteAt(m, a + 30) * 256 + ByteAt(m, a + 31)

Store(m, a, bytes) ==
    [x \in DOMAIN m \cup (a..(a + Len(bytes) - 1)) |->
        IF x \in a..(a + Len(bytes) - 1) THEN bytes[x - a + 1] ELSE m[x]]

Overwrites(m, a, bytes) == \E x \in a..(a + Len(bytes) - 1) : x \in DOMAIN m

\* make_setter into memory: a word, or <length><bytes> of a byte array
SetterBytes(o) ==
    IF IsByteArrayLike(o.typ) THEN WordBytes(Len(o.val.b)) \o o.val.b
    ELSE WordBytes(o.val.w)

\* zero_pad: zeros from the end of the data to the next 32-byte boundary
ZeroPadBytes(m, a) ==
    [j \in 1..(ceil32(WordAt(m, a)) - WordAt(m, a)) |-> 0]
ZeroPadAddr(m, a) == a + 32 + WordAt(m, a)

\* make_setter out of memory: the value of type t stored at a
LoadValue(m, t, a) ==
    IF IsByteArrayLike(t)
    THEN BytesValue([j \in 1..(IF WordAt(m, a) = Undefined THEN 0 ELSE WordAt(m, a)) |->
                        ByteAt(m, a + 32 + j - 1)])
    ELSE WordValue(WordAt(m, a))

\* value of the innermost binding of name
RECURSIVE Lookup(_, _)
Lookup(e, name) ==
    IF e = <<>> THEN Undefined
    ELSE IF e[Len(e)].name = name THEN e[Len(e)].val
    ELSE Lookup(SubSeq(e, 1, Len(e) - 1), name)

\* index of the innermost binding of name, 0 if there is none
RECURSIVE Innermost(_, _)
Innermost(e, name) ==
    IF e = <<>> THEN 0
    ELSE IF e[Len(e)].name = name THEN Len(e)
    ELSE Innermost(SubSeq(e, 1, Len(e) - 1), name)

\* `set`: assign the innermost binding of name
Assign(e, name, v) ==
    IF Innermost(e, name) = 0 THEN e
    ELSE [e EXCEPT ![Innermost(e, name)].val = v]

----------------------------------------------------------------------------
(* The inputs of the model.                                                *)

uint256 == BaseType("uint256")
SmallBytes == ByteArrayType(2)

\* byte-array bounds and byte-string lengths on both sides of a word boundary
BoundChoices == {0, 2, 32, MaxLen}
LenChoices == {0, 2, 32, MaxLen}
WordChoices == {1, 513}
DstChoices == {0, 96}

\* the byte string "abc..." of length l
ByteString(l) == [j \in 1..l |-> 97 + ((j - 1) % 26)]

Shapes ==
    {uint256, BaseType("decimal"), StringType(2)}
    \cup {ByteArrayType(n) : n \in BoundChoices}
    \cup {TupleType(<<ByteArrayType(n)>>) : n \in BoundChoices}
    \cup {TupleType(<<uint256, uint256>>),
          ListType(uint256, MaxCount),
          ListType(TupleType(<<uint256, uint256>>), MaxCount),
          TupleType(<<uint256, SmallBytes, uint256>>),
          TupleType(<<uint256, StringType(2)>>),
          TupleType(<<TupleType(<<uint256, uint256>>), SmallBytes>>),
          TupleType(<<TupleType(<<SmallBytes>>)>>),
          TupleType(<<SmallBytes, ByteArrayType(MaxLen)>>),
          ListType(SmallBytes, MaxCount),
          TupleType(<<ListType(SmallBytes, MaxCount)>>),
          TupleType(<<ListType(SmallBytes, MaxCount), uint256>>),
          TupleType(<<TupleType(<<ListType(SmallBytes, MaxCount)>>)>>),
          ListType(TupleType(<<uint256, SmallBytes>>), MaxCount)}

RECURSIVE Product(_)
Product(sets) ==
    IF sets = <<>> THEN {<<>>}
    ELSE {<<h>> \o t : h \in Head(sets), t \in Product(Tail(sets))}

\* the well-typed values of a front-end type
RECURSIVE Values(_)
Values(t) ==
    IF IsTupleLike(t) \/ IsListType(t)
    THEN {MultiValue(c) :
            c \in Product([j \in 1..Len(MemberTypes(t)) |-> Values(MemberTypes(t)[j])])}
    ELSE IF IsByteArrayLike(t)
    THEN {BytesValue(ByteString(l)) : l \in {x \in LenChoices : x <= t.n}}
    ELSE {WordValue(x) : x \in WordChoices}

----------------------------------------------------------------------------
(* The codec pipeline: abi_encode is called, the tree it returns is run,   *)
(* abi_decode is called for a destination of the same type on the buffer,  *)
(* and the tree it returns is run.                                         *)

NoDesc == ABI_Tuple(<<>>)
NoAns == [is_dynamic |-> FALSE, static_size |-> 0, dynamic_size_bound |-> 0,
          selector_name |-> "", is_tuple |-> FALSE]

inputs == <<typ, val, dstA, returns, bufsz, desc, ans>>

Init ==
    /\ phase = "init"
    /\ typ \in Shapes
    /\ val \in Values(typ)
    /\ dstA \in DstChoices
    /\ returns \in BOOLEAN
    /\ bufsz = None
    /\ code = <<>> /\ vals = <<>> /\ env = <<>>
    /\ mem = <<>> /\ out = <<>> /\ lvl = <<>>
    /\ clobber = FALSE /\ dstEvals = 0
    /\ desc = NoDesc /\ ans = NoAns

\* the caller calls abi_encode(dst, lll_node, bufsz=bufsz, returns=returns)
EncodeCall ==
    /\ phase = "init"
    /\ LET tree == abi_encode(<<"callerdst", dstA>>, LLLnode(typ, val), bufsz, returns)
       IN  IF IsRaise(tree)
           THEN phase' = "panic" /\ code' = <<>>
           ELSE phase' = "enc" /\ code' = << <<"eval", tree>> >>
    /\ UNCHANGED <<vals, env, mem, out, lvl, clobber, dstEvals, inputs>>

\* the caller calls abi_decode(lll_node, src) on the buffer just written
DecodeCall ==
    /\ phase = "encdone"
    /\ LET tree == abi_decode(LLLnode(typ, DestTree(typ, <<>>)),
                              [expr |-> Lit(dstA), typ |-> typ])
       IN  IF IsRaise(tree)
           THEN phase' = "decraise" /\ code' = <<>>
           ELSE phase' = "dec" /\ code' = << <<"eval", tree>> >>
    /\ vals' = <<>> /\ env' = <<>> /\ lvl' = <<>>
    /\ UNCHANGED <<mem, out, clobber, dstEvals, inputs>>

(* The machine.  Arguments are evaluated last to first, as the LLL         *)
(* compiler orders them, so the first argument ends on top of the stack.   *)

Running == phase \in {"enc", "dec"} /\ code # <<>>
Is(op) == Running /\ code[1][1] = op
IsEval(op) == Is("eval") /\ code[1][2][1] = op
Tree == code[1][2]
Rest == Tail(code)
Top(n) == vals[Len(vals) - n]
Pop(n) == SubSeq(vals, 1, Len(vals) - n)
Eval(t) == <<"eval", t>>

machineOnly == <<phase, mem, out, lvl, clobber, dstEvals, inputs>>

EvalLit ==
    /\ IsEval("lit")
    /\ vals' = Append(vals, Tree[2])
    /\ code' = Rest
    /\ UNCHANGED <<env, machineOnly>>

EvalVar ==
    /\ IsEval("var")
    /\ vals' = Append(vals, Lookup(env, Tree[2]))
    /\ code' = Rest
    /\ UNCHANGED <<env, machineOnly>>

EvalCallerDst ==
    /\ IsEval("callerdst")
    /\ vals' = Append(vals, Tree[2])
    /\ dstEvals' = dstEvals + 1
    /\ code' = Rest
    /\ UNCHANGED <<env, phase, mem, out, lvl, clobber, inputs>>

\* the items still to run for a seq: every value but the last one's is dropped
RECURSIVE SeqWork(_, _)
SeqWork(items, h) ==
    IF items = <<>> THEN <<>>
    ELSE IF Len(items) = 1 THEN << Eval(items[1]) >>
    ELSE << Eval(items[1]), <<"dropto", h>> >> \o SeqWork(Tail(items), h)

\* unfold an operator into the evaluation of its arguments and its own step
Unfold ==
    /\ Is("eval")
    /\ Tree[1] \in {"add", "ceil32", "mload", "mstore", "set", "seq", "with",
                    "setter", "zero_pad", "setter_from"}
    /\ code' =
         (CASE Tree[1] = "add" -> << Eval(Tree[3]), Eval(Tree[2]), <<"doadd">> >>
            [] Tree[1] = "ceil32" -> << Eval(Tree[2]), <<"doceil32">> >>
            [] Tree[1] = "mload" -> << Eval(Tree[2]), <<"domload">> >>
            [] Tree[1] = "mstore" -> << Eval(Tree[3]), Eval(Tree[2]), <<"domstore">> >>
            [] Tree[1] = "set" -> << Eval(Tree[3]), <<"doset", Tree[2]>> >>
            [] Tree[1] = "seq" -> SeqWork(Tree[2], Len(vals))
            [] Tree[1] = "with" -> << Eval(Tree[3]), <<"bind", Tree[2], Tree[5]>>,
                                      Eval(Tree[4]), <<"unbind", Tree[2]>> >>
            [] Tree[1] = "setter" -> << Eval(Tree[2]), <<"dosetter", Tree[3]>> >>
            [] Tree[1] = "zero_pad" -> << Eval(Tree[2]), <<"dozeropad">> >>
            [] Tree[1] = "setter_from" -> << Eval(Tree[3]), <<"doload", Tree[2]>> >>)
         \o Rest
    /\ UNCHANGED <<vals, env, machineOnly>>

\* the no-op before a child's items: note which child is being written
Mark ==
    /\ IsEval("mark")
    /\ lvl' = [lvl EXCEPT ![Len(lvl)].i = Tree[2]]
    /\ code' = Rest
    /\ UNCHANGED <<vals, env, phase, mem, out, clobber, dstEvals, inputs>>

DoAdd ==
    /\ Is("doadd")
    /\ vals' = Append(Pop(2), Top(0) + Top(1))
    /\ code' = Rest
    /\ UNCHANGED <<env, machineOnly>>

DoCeil32 ==
    /\ Is("doceil32")
    /\ vals' = Append(Pop(1), ceil32(Top(0)))
    /\ code' = Rest
    /\ UNCHANGED <<env, machineOnly>>

DoMload ==
    /\ Is("domload")
    /\ vals' = Append(Pop(1), WordAt(mem, Top(0)))
    /\ code' = Rest
    /\ UNCHANGED <<env, machineOnly>>

\* mstore addr word: addr is on top, the word below it
DoMstore ==
    /\ Is("domstore")
    /\ mem' = Store(mem, Top(0), WordBytes(Top(1)))
    /\ clobber' = (clobber \/ Overwrites(mem, Top(0), WordBytes(Top(1))))
    /\ vals' = Pop(2)
    /\ code' = Rest
    /\ UNCHANGED <<env, phase, out, lvl, dstEvals, inputs>>

DoSet ==
    /\ Is("doset")
    /\ env' = Assign(env, code[1][2], Top(0))
    /\ vals' = Pop(1)
    /\ code' = Rest
    /\ UNCHANGED machineOnly

DropTo ==
    /\ Is("dropto")
    /\ vals' = SubSeq(vals, 1, code[1][2])
    /\ code' = Rest
    /\ UNCHANGED <<env, machineOnly>>

\* with name init body: the body runs in a fresh scope holding name
DoBind ==
    /\ Is("bind")
    /\ env' = Append(env, [name |-> code[1][2], val |-> Top(0)])
    /\ lvl' = IF code[1][2] \in {"dst", "src"}
              THEN Append(lvl, [typ |-> code[1][3], i |-> -1])
              ELSE lvl
    /\ vals' = Pop(1)
    /\ code' = Rest
    /\ UNCHANGED <<phase, mem, out, clobber, dstEvals, inputs>>

DoUnbind ==
    /\ Is("unbind")
    /\ env' = SubSeq(env, 1, Len(env) - 1)
    /\ lvl' = IF code[1][2] \in {"dst", "src"}
              THEN SubSeq(lvl, 1, Len(lvl) - 1)
              ELSE lvl
    /\ code' = Rest
    /\ UNCHANGED <<vals, phase, mem, out, clobber, dstEvals, inputs>>

DoSetter ==
    /\ Is("dosetter")
    /\ mem' = Store(mem, Top(0), SetterBytes(code[1][2]))
    /\ clobber' = (clobber \/ Overwrites(mem, Top(0), SetterBytes(code[1][2])))
    /\ vals' = Pop(1)
    /\ code' = Rest
    /\ UNCHANGED <<env, phase, out, lvl, dstEvals, inputs>>

DoZeroPad ==
    /\ Is("dozeropad")
    /\ mem' = Store(mem, ZeroPadAddr(mem, Top(0)), ZeroPadBytes(mem, Top(0)))
    /\ clobber' = (clobber \/ Overwrites(mem, ZeroPadAddr(mem, Top(0)),
                                         ZeroPadBytes(mem, Top(0))))
    /\ vals' = Pop(1)
    /\ code' = Rest
    /\ UNCHANGED <<env, phase, out, lvl, dstEvals, inputs>>

DoLoad ==
    /\ Is("doload")
    /\ out' = [p \in DOMAIN out \cup {code[1][2].val.b} |->
                 IF p = code[1][2].val.b
                 THEN LoadValue(mem, code[1][2].typ, Top(0))
                 ELSE out[p]]
    /\ vals' = Pop(1)
    /\ code' = Rest
    /\ UNCHANGED <<env, phase, mem, lvl, clobber, dstEvals, inputs>>

\* the tree has been run to its end
Finish ==
    /\ phase \in {"enc", "dec"}
    /\ code = <<>>
    /\ phase' = (IF phase = "enc" THEN "encdone" ELSE "decdone")
    /\ UNCHANGED <<code, vals, env, mem, out, lvl, clobber, dstEvals, inputs>>

Next ==
    \/ EncodeCall \/ DecodeCall
    \/ EvalLit \/ EvalVar \/ EvalCallerDst \/ Unfold \/ Mark
    \/ DoAdd \/ DoCeil32 \/ DoMload \/ DoMstore \/ DoSet \/ DropTo
    \/ DoBind \/ DoUnbind \/ DoSetter \/ DoZeroPad \/ DoLoad
    \/ Finish

Spec == Init /\ [][Next]_vars

----------------------------------------------------------------------------
(* Descriptor queries: a descriptor is drawn and its five queries answered.*)

Desc0 ==
    {ABI_GIntM(m, sg) : m \in {8, 128, 256}, sg \in BOOLEAN}
    \cup {ABI_Address, ABI_Bool, ABI_Function}
    \cup {ABI_FixedMxN(168, 10, TRUE), ABI_FixedMxN(128, 18, FALSE)}
    \cup {ABI_BytesM(1), ABI_BytesM(32)}
    \cup {ABI_Bytes(0), ABI_Bytes(MaxLen), ABI_String(2)}

Arrays(S) ==
    {ABI_StaticArray(d, k) : d \in S, k \in 0..MaxElems}
    \cup {ABI_DynamicArray(d, k) : d \in S, k \in 0..MaxElems}

Desc1 ==
    Desc0 \cup Arrays(Desc0) \cup {ABI_Tuple(<<>>)}
    \cup {ABI_Tuple(<<d>>) : d \in Desc0}
    \cup {ABI_Tuple(<<d, e>>) : d \in Desc0, e \in Desc0}

Descriptors ==
    Desc1 \cup Arrays(Desc1)
    \cup {ABI_Tuple(<<d>>) : d \in Desc1}
    \cup {ABI_Tuple(<<d, e>>) : d \in Desc1, e \in Desc0}
    \cup {abi_type_of(BaseType(name)) : name \in BaseNames}

InitDesc ==
    /\ phase = "desc"
    /\ desc \in Descriptors
    /\ ValidDescriptorParams(desc)
    /\ ans = NoAns
    /\ typ = uint256 /\ val = WordValue(1) /\ dstA = 0
    /\ returns = FALSE /\ bufsz = None
    /\ code = <<>> /\ vals = <<>> /\ env = <<>>
    /\ mem = <<>> /\ out = <<>> /\ lvl = <<>>
    /\ clobber = FALSE /\ dstEvals = 0

Query ==
    /\ phase = "desc"
    /\ ans' = [is_dynamic |-> is_dynamic(desc),
               static_size |-> static_size(desc),
               dynamic_size_bound |-> dynamic_size_bound(desc),
               selector_name |-> selector_name(desc),
               is_tuple |-> is_tuple(desc)]
    /\ phase' = "answered"
    /\ UNCHANGED <<typ, val, dstA, returns, bufsz, desc, code, vals, env, mem,
                   out, lvl, clobber, dstEvals>>

SpecDesc == InitDesc /\ [][Query]_vars

(* abi_encode called with a buffer size.                                   *)

BufChoices(t) ==
    {0, size_bound(abi_type_of(t)) - 1, size_bound(abi_type_of(t)),
     size_bound(abi_type_of(t)) + 32,
     32 * size_bound(abi_type_of(t)) - 1, 32 * size_bound(abi_type_of(t))}

InitBuf ==
    /\ phase = "init"
    /\ typ \in Shapes
    /\ val = CHOOSE v \in Values(typ) : TRUE
    /\ dstA = 0
    /\ returns = FALSE
    /\ bufsz \in BufChoices(typ)
    /\ code = <<>> /\ vals = <<>> /\ env = <<>>
    /\ mem = <<>> /\ out = <<>> /\ lvl = <<>>
    /\ clobber = FALSE /\ dstEvals = 0
    /\ desc = NoDesc /\ ans = NoAns

SpecBuf == InitBuf /\ [][EncodeCall]_vars

----------------------------------------------------------------------------
(* Reference notions the properties are stated with.                       *)

\* <length word><data zero-padded to a 32-byte multiple> placed at a
BareEncoding(a, s) ==
    [x \in a..(a + 32 + ceil32(Len(s)) - 1) |->
        IF x - a < 30 THEN 0
        ELSE IF x - a = 30 THEN Len(s) \div 256
        ELSE IF x - a = 31 THEN Len(s) % 256
        ELSE IF x - a - 32 < Len(s) THEN s[x - a - 31]
        ELSE 0]

\* the single word 0x20 placed at a, followed by f
OffsetWordThen(a, f) ==
    [x \in a..(a + 31) \cup DOMAIN f |->
        IF x \in DOMAIN f THEN f[x] ELSE IF x = a + 31 THEN 32 ELSE 0]

IsSingletonBytesTuple(t) ==
    IsTupleLike(t) /\ Len(t.subs) = 1 /\ t.subs[1].k = "bytes"

\* the level being run, its type, child index and cells
Level == lvl[Len(lvl)]
HeadOff(t, i) ==
    SumSeq([j \in 1..i |-> static_size(abi_type_of(MemberTypes(t)[j]))])
HeadSize(t) == HeadOff(t, Len(MemberTypes(t)))
ChildIsDynamic == is_dynamic(abi_type_of(MemberTypes(Level.typ)[Level.i + 1]))
Cell(name) == Lookup(env, name)
Written == DOMAIN mem

\* the leaves of a value with their paths
RECURSIVE Leaves(_, _, _)
Leaves(t, v, path) ==
    IF IsTupleLike(t) \/ IsListType(t)
    THEN UNION {Leaves(MemberTypes(t)[j], v.c[j], Append(path, j)) :
                    j \in 1..Len(MemberTypes(t))}
    ELSE {<<path, v>>}

RECURSIVE HasDynamicMember(_)
HasDynamicMember(t) ==
    (IsTupleLike(t) \/ IsListType(t))
    /\ \E j \in 1..Len(MemberTypes(t)) :
          \/ is_dynamic(abi_type_of(MemberTypes(t)[j]))
          \/ HasDynamicMember(MemberTypes(t)[j])

----------------------------------------------------------------------------
(* C1: the tree emitted for a bare Bytes(n) writes <length><data zero      *)
(* padded> at dst and nothing else; the tree emitted for Tuple([Bytes(n)]) *)
(* holding the same bytes writes the word 0x20 at dst and exactly those    *)
(* bytes at dst + 32.                                                      *)
C1_BareVsSingletonTuple ==
    phase = "encdone" =>
        /\ typ.k = "bytes" => mem = BareEncoding(dstA, val.b)
        /\ IsSingletonBytesTuple(typ) =>
              mem = OffsetWordThen(dstA, BareEncoding(dstA + 32, val.c[1].b))

\* a singleton tuple holding a byte string longer than a word was encoded
C1_Witness ==
    /\ phase = "encdone"
    /\ typ = TupleType(<<ByteArrayType(MaxLen)>>)
    /\ Len(val.c[1].b) = MaxLen
    /\ dstA > 0

(* C2: decoding the buffer written by the encoder, for a destination of    *)
(* the same type, ends with the destination holding the encoded value.     *)
C2_RoundTrip ==
    /\ phase # "decraise"
    /\ phase = "decdone" =>
          {<<p, out[p]>> : p \in DOMAIN out} = Leaves(typ, val, <<>>)

(* C3: the emitted encoder writes only inside                              *)
(* [dst, dst + static_size + dynamic_size_bound) of the node's ABI type.   *)
C3_WritesWithinSizeBound ==
    \A a \in Written :
        dstA <= a /\ a < dstA + size_bound(abi_type_of(typ))

(* C4: with returns=true the last value of the emitted tree is the number  *)
(* of bytes written, which are the bytes dst .. dst + value - 1.           *)
C4_ReturnsBytesWritten ==
    (phase = "encdone" /\ returns) =>
        /\ Len(vals) = 1
        /\ vals[1] = Cardinality(Written)
        /\ Written = dstA..(dstA + vals[1] - 1)

(* C5: abi_encode with a buf-size panics exactly when the buf-size is      *)
(* below static_size + dynamic_size_bound bytes of the node's ABI type.    *)
C5_PanicIffBelowByteBound ==
    (phase \in {"panic", "enc"} /\ bufsz # None) =>
        ((phase = "panic") <=>
            (bufsz < static_size(abi_type_of(typ))
                     + dynamic_size_bound(abi_type_of(typ))))

(* C6: static_size is a non-negative multiple of 32, and is 32 whenever    *)
(* the descriptor is dynamic.                                              *)
C6_StaticSizeShape ==
    phase = "answered" =>
        /\ ans.static_size >= 0
        /\ ans.static_size % 32 = 0
        /\ ans.is_dynamic => ans.static_size = 32

\* the ABI's canonical name of a descriptor that holds no tuple
RECURSIVE CanonicalName(_)
CanonicalName(D) ==
    CASE D.k = "GIntM" -> (IF D.signed THEN "int" ELSE "uint") \o ToString(D.m)
      [] D.k = "Address" -> "address"
      [] D.k = "Bool" -> "bool"
      [] D.k = "FixedMxN" ->
            (IF D.signed THEN "fixed" ELSE "ufixed")
            \o ToString(D.m) \o "x" \o ToString(D.n)
      [] D.k = "BytesM" -> "bytes" \o ToString(D.m)
      [] D.k = "Function" -> "function"
      [] D.k = "Bytes" -> "bytes"
      [] D.k = "String" -> "string"
      [] D.k = "StaticArray" ->
            CanonicalName(D.subs[1]) \o "[" \o ToString(D.m) \o "]"
      [] D.k = "DynamicArray" -> CanonicalName(D.subs[1]) \o "[]"

RECURSIVE HoldsTuple(_)
HoldsTuple(D) ==
    D.k = "Tuple" \/ \E j \in 1..Len(D.subs) : HoldsTuple(D.subs[j])

(* C7: the selector name of a descriptor is its ABI canonical name with    *)
(* the parameters substituted; decimal's descriptor is named fixed168x10.  *)
C7_SelectorNameCanonical ==
    (phase = "answered" /\ ~HoldsTuple(desc)) =>
        /\ ans.selector_name = CanonicalName(desc)
        /\ desc = abi_type_of(BaseType("decimal")) =>
              ans.selector_name = "fixed168x10"


\* the addresses written at or after the start of the tail being closed
TailWritten == {a \in Written : a >= Cell("dst") + Cell("dyn_ofst")}

(* C8: in the emitted encoder of a tuple-like parent, child i is written   *)
(* with dst_loc = dst + sum of static_size(c_j), j < i; dyn_ofst starts at *)
(* the sum of all children's static_size; a dynamic child's head slot gets *)
(* the dyn_ofst of that moment, its tail goes to dst + that offset, and    *)
(* dyn_ofst then grows by exactly the bytes the child wrote; no byte is    *)
(* written twice and every tail lies at or after the end of the head.      *)
C8_HeadTailDiscipline ==
    phase = "enc" =>
        /\ ~clobber
        /\ (Is("bind") /\ code[1][2] = "dyn_ofst") =>
              Top(0) = HeadSize(Level.typ)
        /\ Is("domstore") =>
              /\ Top(0) = Cell("dst_loc")
              /\ Top(0) = Cell("dst") + HeadOff(Level.typ, Level.i)
              /\ Top(1) = Cell("dyn_ofst")
              /\ Top(1) >= HeadSize(Level.typ)
        /\ (Is("bind") /\ code[1][2] = "dst" /\ Len(lvl) >= 1) =>
              IF ChildIsDynamic
              THEN /\ Top(0) = Cell("dst") + Cell("dyn_ofst")
                   /\ WordAt(mem, Cell("dst") + HeadOff(Level.typ, Level.i))
                        = Cell("dyn_ofst")
              ELSE /\ Top(0) = Cell("dst_loc")
                   /\ Top(0) = Cell("dst") + HeadOff(Level.typ, Level.i)
        /\ (Is("doset") /\ code[1][2] = "dst_loc") =>
              Top(0) = Cell("dst") + HeadOff(Level.typ, Level.i + 1)
        /\ (Is("doset") /\ code[1][2] = "dyn_ofst") =>
              /\ Top(0) >= Cell("dyn_ofst")
              /\ Top(0) - Cell("dyn_ofst") = Cardinality(TailWritten)
              /\ \A a \in Written : a < Cell("dst") + Top(0)

(* C9: in the emitted decoder of a tuple-like source a static child is     *)
(* decoded in place from src + sum of static_size(c_j), j < i, a dynamic   *)
(* child from src plus the offset word stored there, src_loc advances by   *)
(* static_size(c_i) after every child but the last, and abi_decode emits   *)
(* such a tree for every tuple-like type.                                  *)
C9_DecoderLocatesChildren ==
    /\ phase # "decraise"
    /\ phase = "dec" =>
        /\ (Is("bind") /\ code[1][2] = "src" /\ Len(lvl) >= 1) =>
              IF ChildIsDynamic
              THEN Top(0) = Cell("src")
                            + WordAt(mem, Cell("src") + HeadOff(Level.typ, Level.i))
              ELSE /\ Top(0) = Cell("src_loc")
                   /\ Top(0) = Cell("src") + HeadOff(Level.typ, Level.i)
        /\ (Is("doset") /\ code[1][2] = "src_loc") =>
              Top(0) = Cell("src") + HeadOff(Level.typ, Level.i + 1)

\* the bindings of name in an environment
Bindings(e, name) == {k \in 1..Len(e) : e[k].name = name}

(* C10: while the tree of a child runs, the cells dst, dst_loc and         *)
(* dyn_ofst of every enclosing level keep their values; a cell changes     *)
(* only by a `set` of its own level, dst never changes once bound, and the *)
(* caller's dst expression is evaluated exactly once.                      *)
C10_LevelsOwnTheirCells ==
    [][phase = "enc" =>
        /\ \A k \in 1..Len(env) :
              k < Innermost(env, "dst") => (k <= Len(env') /\ env'[k] = env[k])
        /\ \A k \in 1..Len(env) :
              (k <= Len(env') /\ env'[k] # env[k]) =>
                  /\ Is("doset")
                  /\ env[k].name = code[1][2]
                  /\ env[k].name \in {"dst_loc", "dyn_ofst"}
                  /\ env'[k].name = env[k].name
        /\ dstEvals' <= 1
        /\ phase' = "encdone" => dstEvals' = 1
      ]_vars

\* a child's tree has advanced its own dst_loc while the parent's dst_loc
\* and dyn_ofst are in scope below it
C10_Witness ==
    /\ phase = "enc"
    /\ Cardinality(Bindings(env, "dst")) >= 2
    /\ Cardinality(Bindings(env, "dyn_ofst")) >= 1
    /\ Cell("dst_loc") # Cell("dst")

====
